---- MODULE Spec2Model ----
(***************************************************************************)
(* Model of the client-side agent event handling of ii-agent's frontend    *)
(* (frontend/app/page.tsx, component Home): the React state of the page,   *)
(* the WebSocket message handler, the debounced handleClickAction router,  *)
(* the setTimeout callbacks it leaves behind, and the user operations      *)
(* (query submit, file upload, reset, clicks).                             *)
(*                                                                         *)
(* Strings that the code only copies are atoms.  Strings the code takes    *)
(* apart or builds (paths, the outbound query text) are sequences of       *)
(* pieces, so that startsWith, join and concatenation are computed.        *)
(* An optional value (x?: T) is a sequence of length 0 or 1.               *)
(***************************************************************************)
EXTENDS Integers, Sequences, FiniteSets, TLC

VARIABLES
    messages,               \* useState<Message[]>([])
    isLoading,              \* useState(false)
    isInChatView,           \* useState(false)
    socket,                 \* useState<WebSocket | null>: readyState, or "NULL"
    activeTab,              \* useState(TAB.BROWSER)
    currentActionData,      \* useState<ActionStep>()
    activeFileCodeEditor,   \* useState("")
    isCompleted,            \* useState(false)
    workspaceInfo,          \* useState("")
    isUploading,            \* useState(false)
    uploadedFiles,          \* useState<string[]>([])
    terminal,               \* what has been written to xtermRef.current
    timers,                 \* pending setTimeout / debounce timers, in creation order
    reads,                  \* handleFileUpload calls awaiting Promise.all(filePromises)
    now,                    \* Date.now(), in ms
    crashed,                \* an exception left a state updater: the tree is gone
    step,                   \* number of handler / user operations so far
    cur,                    \* the most recent operation and what it did
    acked,                  \* every filename acknowledged by upload_success, in order
    queried,                \* a query has left since the page was mounted or reset
    inFlight                \* upload_file requests sent and not yet answered

vars == <<messages, isLoading, isInChatView, socket, activeTab, currentActionData,
          activeFileCodeEditor, isCompleted, workspaceInfo, isUploading,
          uploadedFiles, terminal, timers, reads, now, crashed, step, cur,
          acked, queried, inFlight>>

panel == <<activeTab, currentActionData, activeFileCodeEditor>>

(***************************************************************************)
(* Bounds of the model.                                                    *)
(***************************************************************************)
MaxOps == 3          \* inbound events and user operations explored

(***************************************************************************)
(* Program constants.                                                      *)
(***************************************************************************)
DEBOUNCE_MS == 50    \* debounce(..., 50)
DELAY_MS == 500      \* setTimeout(..., 500)

\* enum TAB
TAB_BROWSER == "browser"
TAB_CODE == "code"
TAB_TERMINAL == "terminal"
TAB == {TAB_BROWSER, TAB_CODE, TAB_TERMINAL}

\* enum TOOL
SEQUENTIAL_THINKING == "sequential_thinking"
STR_REPLACE_EDITOR == "str_replace_editor"
BROWSER_USE == "browser_use"
TAVILY_SEARCH == "tavily_web_search"
TAVILY_VISIT == "tavily_visit_webpage"
BASH == "bash"
FILE_WRITE == "file_write"
COMPLETE == "complete"
STATIC_DEPLOY == "static_deploy"
PDF_TEXT_EXTRACT == "pdf_text_extract"
BROWSER_VIEW == "browser_view"
BROWSER_NAVIGATION == "browser_navigation"
BROWSER_RESTART == "browser_restart"
BROWSER_WAIT == "browser_wait"
BROWSER_SCROLL_DOWN == "browser_scroll_down"
BROWSER_SCROLL_UP == "browser_scroll_up"
BROWSER_CLICK == "browser_click"
BROWSER_ENTER_TEXT == "browser_enter_text"
BROWSER_PRESS_KEY == "browser_press_key"
BROWSER_GET_SELECT_OPTIONS == "browser_get_select_options"
BROWSER_SELECT_DROPDOWN_OPTION == "browser_select_dropdown_option"
BROWSER_SWITCH_TAB == "browser_switch_tab"
BROWSER_OPEN_NEW_TAB == "browser_open_new_tab"
AUDIO_TRANSCRIBE == "audio_transcribe"
GENERATE_AUDIO_RESPONSE == "generate_audio_response"

TOOL == {SEQUENTIAL_THINKING, STR_REPLACE_EDITOR, BROWSER_USE, TAVILY_SEARCH,
         TAVILY_VISIT, BASH, FILE_WRITE, COMPLETE, STATIC_DEPLOY, PDF_TEXT_EXTRACT,
         BROWSER_VIEW, BROWSER_NAVIGATION, BROWSER_RESTART, BROWSER_WAIT,
         BROWSER_SCROLL_DOWN, BROWSER_SCROLL_UP, BROWSER_CLICK, BROWSER_ENTER_TEXT,
         BROWSER_PRESS_KEY, BROWSER_GET_SELECT_OPTIONS,
         BROWSER_SELECT_DROPDOWN_OPTION, BROWSER_SWITCH_TAB, BROWSER_OPEN_NEW_TAB,
         AUDIO_TRANSCRIBE, GENERATE_AUDIO_RESPONSE}

\* the browser kinds that handleClickAction answers with the browser tab only
BrowserPanelTools == {BROWSER_CLICK, BROWSER_ENTER_TEXT, BROWSER_PRESS_KEY,
                      BROWSER_GET_SELECT_OPTIONS, BROWSER_SELECT_DROPDOWN_OPTION,
                      BROWSER_SWITCH_TAB, BROWSER_OPEN_NEW_TAB, BROWSER_VIEW,
                      BROWSER_NAVIGATION, BROWSER_RESTART, BROWSER_WAIT,
                      BROWSER_SCROLL_DOWN, BROWSER_SCROLL_UP}

\* the kinds whose tool_result the message handler leaves at once
IgnoredResultTools == {BROWSER_VIEW, BROWSER_CLICK, BROWSER_ENTER_TEXT,
                       BROWSER_PRESS_KEY, BROWSER_GET_SELECT_OPTIONS,
                       BROWSER_SELECT_DROPDOWN_OPTION, BROWSER_SWITCH_TAB,
                       BROWSER_OPEN_NEW_TAB, BROWSER_WAIT, BROWSER_SCROLL_DOWN,
                       BROWSER_SCROLL_UP, BROWSER_NAVIGATION, BROWSER_RESTART}

(***************************************************************************)
(* Values.                                                                 *)
(***************************************************************************)
Undefined == "undefined"          \* an absent string field
None == <<>>                      \* an absent optional value
Some(x) == <<x>>
EmptyStr == <<>>                  \* the string "" of a built string

\* String.prototype.startsWith on strings kept as sequences of pieces
StartsWith(s, p) ==
    /\ Len(p) <= Len(s)
    /\ \A i \in 1..Len(p) : s[i] = p[i]

\* `${workspaceInfo}/${path}`
JoinPath(w, p) == w \o <<"/">> \o p

\* JS truthiness of a string field: undefined and "" are falsy
Truthy(s) == s # Undefined /\ s # ""

\* String.prototype.split("\n") on the result strings of the model
TwoLines == "a.txt\nb.txt"
Split(s) == IF s = TwoLines THEN <<"a.txt", "b.txt">> ELSE <<s>>

\* String.prototype.trim on the question strings of the model
Blank == "  "
Trim(s) == IF s = Blank THEN "" ELSE s

\* tool_input of an ActionStep (typings/agent.ts); paths are built strings
NoInput == [thought |-> Undefined, path |-> None, file |-> None,
            command |-> Undefined, url |-> Undefined, query |-> Undefined]

\* ActionStep {type, data: {tool_name, tool_input, result, isResult}}, flattened.
\* raw = TRUE is the shape of the tool_result fallback, whose action is the
\* event's content {tool_name, result}: it has no type and no data.
ActionOf(type, tool_name, tool_input, result, isResult) ==
    [type |-> type, tool_name |-> tool_name, tool_input |-> tool_input,
     result |-> result, isResult |-> isResult, raw |-> FALSE]

RawAction(tool_name, result) ==
    [type |-> Undefined, tool_name |-> tool_name, tool_input |-> NoInput,
     result |-> result, isResult |-> FALSE, raw |-> TRUE]

\* isResult is only ever absent or true; FALSE stands for absent

\* interface Message
Msg(id, role, content, action, files) ==
    [id |-> id, role |-> role, content |-> content, action |-> action,
     files |-> files]

Last(s) == s[Len(s)]
Front(s) == SubSeq(s, 1, Len(s) - 1)

(***************************************************************************)
(* handleClickAction: the function handed to debounce.  Each operator      *)
(* gives one piece of React state after the body has run on ActionStep a.  *)
(***************************************************************************)
WebPayloadTools == {TAVILY_SEARCH, BROWSER_USE, TAVILY_VISIT}
CodeTools == {FILE_WRITE, STR_REPLACE_EDITOR}

RouteTab_NoTerminal(curTab, a) ==
    IF a.type \in WebPayloadTools \cup BrowserPanelTools \cup {BASH} THEN TAB_BROWSER
    ELSE IF a.type \in CodeTools THEN TAB_CODE
    ELSE curTab

\* setActiveTab(...) of the switch; default leaves the tab alone
RouteTab(curTab, a) ==
    IF a.type \in WebPayloadTools \cup BrowserPanelTools THEN TAB_BROWSER
    ELSE IF a.type = BASH THEN TAB_TERMINAL
    ELSE IF a.type \in CodeTools THEN TAB_CODE
    ELSE curTab

\* setCurrentActionData(data) of the switch
RouteData(curData, a) ==
    IF a.type \in WebPayloadTools \cup CodeTools THEN Some(a) ELSE curData

\* data.data.tool_input?.path || data.data.tool_input?.file
RoutePath(a) ==
    IF a.tool_input.path # None /\ a.tool_input.path # <<EmptyStr>>
    THEN a.tool_input.path
    ELSE a.tool_input.file

RouteFile_Appends(curFile, a, w) ==
    LET path == RoutePath(a)
    IN IF a.type \in CodeTools /\ path # None /\ path[1] # EmptyStr
       THEN curFile \o path[1]
       ELSE EmptyStr

\* setActiveFileCodeEditor(""), then the path of a file tool resolved against
\* the workspaceInfo w that the closure holds
RouteFile(curFile, a, w) ==
    LET cleared == EmptyStr
        path == RoutePath(a)
    IN IF a.type \in CodeTools /\ path # None /\ path[1] # EmptyStr
       THEN (IF StartsWith(path[1], w) THEN path[1] ELSE JoinPath(w, path[1]))
       ELSE cleared

RouteSchedulesWrite_Always(a, showTabOnly) == a.type = BASH

\* case TOOL.BASH: the setTimeout(..., 500) that writes to the terminal
RouteSchedulesWrite(a, showTabOnly) == a.type = BASH /\ ~showTabOnly

\* what that callback writes: the command unless the step is a result, then
\* the result's lines and a prompt if the result is truthy
TerminalWrites(a) ==
    LET cmd == IF ~a.isResult
               THEN <<IF Truthy(a.tool_input.command)
                      THEN a.tool_input.command ELSE "">>
               ELSE <<>>
        res == IF Truthy(a.result) THEN Split(a.result) \o <<"$ ">> ELSE <<>>
    IN cmd \o res

(***************************************************************************)
(* Timers.  A timer is a record; timers holds the pending ones in the      *)
(* order of their creation.  kind is "debounce" (the trailing call of a    *)
(* debounced handleClickAction), "reroute" (the setTimeout of the          *)
(* tool_result merge) or "write" (the setTimeout of case TOOL.BASH).       *)
(* inst names the debounced function: "ws" is the one the message handler  *)
(* closed over at mount, "click" the one of a render.  live says that the  *)
(* render that made a "click" instance is still the current one.  stale    *)
(* records that resetChat ran while the timer was pending.                 *)
(***************************************************************************)
Timer(kind, rem, a, showTabOnly, w, inst) ==
    [kind |-> kind, rem |-> rem, data |-> a, showTabOnly |-> showTabOnly,
     w |-> w, inst |-> inst, live |-> TRUE, stale |-> FALSE]

\* a render makes a new debounced handleClickAction: pending calls of the
\* old one still fire, but later clicks no longer restart them
Rerender(ts) ==
    [i \in 1..Len(ts) |->
        IF ts[i].kind = "debounce" /\ ts[i].inst = "click"
        THEN [ts[i] EXCEPT !.live = FALSE] ELSE ts[i]]

\* lodash debounce(f, 50), trailing edge: a call drops the pending call of
\* the same function and waits 50ms from now
Debounced(ts, inst, a, showTabOnly, w) ==
    LET Other(t) == ~(t.kind = "debounce" /\ t.inst = inst /\ t.live)
    IN Append(SelectSeq(ts, Other),
              Timer("debounce", DEBOUNCE_MS, a, showTabOnly, w, inst))

\* the message handler was made by the mount effect: its handleClickAction
\* is the first render's, which holds the first render's workspaceInfo
MountWorkspaceInfo == EmptyStr
RouteFromSocket(ts, a) == Debounced(ts, "ws", a, FALSE, MountWorkspaceInfo)

\* setTimeout(() => handleClickAction(lastMessage.action), 500)
ScheduleReroute(ts, a) ==
    Append(ts, Timer("reroute", DELAY_MS, a, FALSE, MountWorkspaceInfo, "ws"))

DelayClass(t) == IF t.kind = "debounce" THEN DEBOUNCE_MS ELSE DELAY_MS

\* timers of equal delay expire in the order of their creation
MayFire(ts, i) ==
    /\ ts[i].rem = 0
    /\ \A j \in 1..(i - 1) :
          ~(ts[j].rem = 0 /\ DelayClass(ts[j]) = DelayClass(ts[i]))

RemoveAt(s, i) == SubSeq(s, 1, i - 1) \o SubSeq(s, i + 1, Len(s))

MinRem(ts) == CHOOSE m \in {ts[i].rem : i \in 1..Len(ts)} :
                  \A i \in 1..Len(ts) : m <= ts[i].rem

(***************************************************************************)
(* Inputs.                                                                 *)
(***************************************************************************)
\* the tool kinds the inbound events of the model carry: one of each class
\* of the two switches
EventTools == {SEQUENTIAL_THINKING, BASH, FILE_WRITE, TAVILY_SEARCH,
               BROWSER_USE, BROWSER_CLICK, COMPLETE}

\* paths, character by character
WorkspacePath == <<"/", "w">>
AbsPath == <<"/", "w", "/", "a">>
RelPath == <<"b">>

ToolInputs(k) ==
    IF k = SEQUENTIAL_THINKING THEN {[NoInput EXCEPT !.thought = "planning"]}
    ELSE IF k = BASH THEN {[NoInput EXCEPT !.command = "ls"]}
    ELSE IF k \in CodeTools
         THEN {[NoInput EXCEPT !.path = Some(AbsPath)],
               [NoInput EXCEPT !.file = Some(RelPath)]}
    ELSE IF k = TAVILY_SEARCH THEN {[NoInput EXCEPT !.query = "q"]}
    ELSE IF k \in {TAVILY_VISIT, BROWSER_USE} THEN {[NoInput EXCEPT !.url = "u"]}
    ELSE {NoInput}

Results == {"", TwoLines}
\* the results explored for a kind: both for the kind whose result the
\* router tests for truthiness, one for the others
ResultsOf(k) == IF k = BASH THEN Results ELSE {TwoLines}
Questions == {"hi", Blank}
FileLists == {<<"a.png">>, <<"b.txt", "a.png">>}
\* the files the user chooses in the file input
ChosenFiles == {<<"a.png", "b.txt">>}

(***************************************************************************)
(* The record of an operation: which handler ran, on what, and what left   *)
(* the program (a message sent, a toast shown).                            *)
(***************************************************************************)
NoMessage == [type |-> "none", text |-> <<>>, resume |-> FALSE, files |-> <<>>]
QueryMessage(text, resume) ==
    [type |-> "query", text |-> text, resume |-> resume, files |-> <<>>]
UploadMessage(files) ==
    [type |-> "upload_file", text |-> <<>>, resume |-> FALSE, files |-> files]

\* a call of the handler's debounced handleClickAction falls into the window
\* of an earlier call when that call's timer is still pending.  The pending
\* call is that of a tool_call when its ActionStep has no result yet.
PendingCalls == {i \in 1..Len(timers) :
                    /\ timers[i].kind = "debounce" /\ timers[i].inst = "ws"
                    /\ ~timers[i].data.isResult
                    /\ timers[i].data.result = Undefined}
InWindow == IF PendingCalls = {} THEN Undefined
            ELSE timers[CHOOSE i \in PendingCalls : TRUE].data.type

\* inWindow: the kind of the tool_call whose debounced route was pending
\* when the operation began; afterCall: the operation before this one was
\* the tool_call of the same kind
Op(op, tool, arg, sent, toast) ==
    [op |-> op, tool_name |-> tool, arg |-> arg, sent |-> sent, toast |-> toast,
     inWindow |-> InWindow,
     afterCall |-> (cur.op = "tool_call" /\ cur.tool_name = tool)]

\* an upload_success or error event answers one upload_file request
Answered(n) == IF n > 0 THEN n - 1 ELSE 0

\* bookkeeping common to every operation
Record(o) ==
    /\ step < MaxOps
    /\ step' = step + 1
    /\ cur' = o

Init ==
    /\ messages = <<>>
    /\ isLoading = FALSE
    /\ isInChatView = FALSE
    /\ socket = "CONNECTING"
    /\ activeTab = TAB_BROWSER
    /\ currentActionData = None
    /\ activeFileCodeEditor = EmptyStr
    /\ isCompleted = FALSE
    /\ workspaceInfo = EmptyStr
    /\ isUploading = FALSE
    /\ uploadedFiles = <<>>
    /\ terminal = <<>>
    /\ timers = <<>>
    /\ reads = <<>>
    /\ now = 0
    /\ crashed = FALSE
    /\ step = 0
    /\ cur = [op |-> "init", tool_name |-> Undefined, arg |-> Undefined,
              sent |-> NoMessage, toast |-> FALSE, inWindow |-> Undefined,
              afterCall |-> FALSE]
    /\ acked = <<>>
    /\ queried = FALSE
    /\ inFlight = 0

(***************************************************************************)
(* The WebSocket.                                                          *)
(***************************************************************************)
\* ws.onopen: asks for the workspace info
WsOpen ==
    /\ ~crashed
    /\ socket = "CONNECTING"
    /\ socket' = "OPEN"
    /\ UNCHANGED <<messages, isLoading, isInChatView, activeTab, currentActionData,
                   activeFileCodeEditor, isCompleted, workspaceInfo, isUploading,
                   uploadedFiles, terminal, timers, reads, now, crashed, step, cur,
                   acked, queried, inFlight>>

\* ws.onclose: setSocket(null).  The connection closes after resetChat's
\* socket.close(), or because the server or the network ends it.
WsClose ==
    /\ ~crashed
    /\ socket # "NULL"
    /\ socket' = "NULL"
    /\ timers' = Rerender(timers)
    /\ Record(Op("close", Undefined, Undefined, NoMessage, FALSE))
    /\ UNCHANGED <<messages, isLoading, isInChatView, activeTab, currentActionData,
                   activeFileCodeEditor, isCompleted, workspaceInfo, isUploading,
                   uploadedFiles, terminal, reads, now, crashed, acked, queried,
                   inFlight>>

\* an inbound message reaches ws.onmessage only on an open connection
Receiving == ~crashed /\ socket = "OPEN"

AssistantText_NoContent(text) == Msg(now, "assistant", Undefined, None, None)

\* { id: Date.now().toString(), role: "assistant", content: text }
AssistantText(text) == Msg(now, "assistant", text, None, None)

Processing_Toggles ==
    /\ Receiving
    /\ isLoading' = ~isLoading
    /\ Record(Op("processing", Undefined, Undefined, NoMessage, FALSE))
    /\ timers' = Rerender(timers)
    /\ UNCHANGED <<messages, isInChatView, socket, activeTab, currentActionData,
                   activeFileCodeEditor, isCompleted, workspaceInfo, isUploading,
                   uploadedFiles, terminal, reads, now, crashed, acked, queried,
                   inFlight>>

\* case AgentEvent.PROCESSING
Processing ==
    /\ Receiving
    /\ isLoading' = TRUE
    /\ Record(Op("processing", Undefined, Undefined, NoMessage, FALSE))
    /\ timers' = Rerender(timers)
    /\ UNCHANGED <<messages, isInChatView, socket, activeTab, currentActionData,
                   activeFileCodeEditor, isCompleted, workspaceInfo, isUploading,
                   uploadedFiles, terminal, reads, now, crashed, acked, queried,
                   inFlight>>

\* case AgentEvent.WORKSPACE_INFO
WorkspaceInfo ==
    /\ Receiving
    /\ workspaceInfo' = WorkspacePath
    /\ Record(Op("workspace_info", Undefined, Undefined, NoMessage, FALSE))
    /\ timers' = Rerender(timers)
    /\ UNCHANGED <<messages, isLoading, isInChatView, socket, activeTab,
                   currentActionData, activeFileCodeEditor, isCompleted, isUploading,
                   uploadedFiles, terminal, reads, now, crashed, acked, queried,
                   inFlight>>

\* case AgentEvent.AGENT_THINKING
AgentThinking ==
    /\ Receiving
    /\ messages' = Append(messages, AssistantText("text"))
    /\ Record(Op("agent_thinking", Undefined, "text", NoMessage, FALSE))
    /\ timers' = Rerender(timers)
    /\ UNCHANGED <<isLoading, isInChatView, socket, activeTab, currentActionData,
                   activeFileCodeEditor, isCompleted, workspaceInfo, isUploading,
                   uploadedFiles, terminal, reads, now, crashed, acked, queried,
                   inFlight>>

AgentResponse_StaysBusy ==
    /\ Receiving
    /\ messages' = Append(messages, AssistantText("text"))
    /\ isCompleted' = TRUE
    /\ isLoading' = isLoading
    /\ Record(Op("agent_response", Undefined, "text", NoMessage, FALSE))
    /\ timers' = Rerender(timers)
    /\ UNCHANGED <<isInChatView, socket, activeTab, currentActionData,
                   activeFileCodeEditor, workspaceInfo, isUploading, uploadedFiles,
                   terminal, reads, now, crashed, acked, queried, inFlight>>

\* case AgentEvent.AGENT_RESPONSE
AgentResponse ==
    /\ Receiving
    /\ messages' = Append(messages, AssistantText("text"))
    /\ isCompleted' = TRUE
    /\ isLoading' = FALSE
    /\ Record(Op("agent_response", Undefined, "text", NoMessage, FALSE))
    /\ timers' = Rerender(timers)
    /\ UNCHANGED <<isInChatView, socket, activeTab, currentActionData,
                   activeFileCodeEditor, workspaceInfo, isUploading, uploadedFiles,
                   terminal, reads, now, crashed, acked, queried, inFlight>>

IsThinking_Never(k) == FALSE

\* data.content.tool_name === TOOL.SEQUENTIAL_THINKING
IsThinking(k) == k = SEQUENTIAL_THINKING

\* case AgentEvent.TOOL_CALL
ToolCall(k, input) ==
    /\ Receiving
    /\ IF IsThinking(k)
       THEN /\ messages' = Append(messages, AssistantText(input.thought))
            /\ timers' = Rerender(timers)
       ELSE LET action == ActionOf(k, k, input, Undefined, FALSE)
            IN /\ messages' = Append(messages,
                                     Msg(now, "assistant", Undefined, Some(action), None))
               /\ timers' = RouteFromSocket(Rerender(timers), action)
    /\ Record(Op("tool_call", k, input.thought, NoMessage, FALSE))
    /\ UNCHANGED <<isLoading, isInChatView, socket, activeTab, currentActionData,
                   activeFileCodeEditor, isCompleted, workspaceInfo, isUploading,
                   uploadedFiles, terminal, reads, now, crashed, acked, queried,
                   inFlight>>

\* case AgentEvent.BROWSER_USE: the action's type is the event type
BrowserUse ==
    /\ Receiving
    /\ LET action == ActionOf(BROWSER_USE, Undefined, [NoInput EXCEPT !.url = "u"],
                              "screenshot", FALSE)
       IN /\ messages' = Append(messages,
                                Msg(now, "assistant", Undefined, Some(action), None))
          /\ timers' = RouteFromSocket(Rerender(timers), action)
    /\ Record(Op("browser_use", BROWSER_USE, "screenshot", NoMessage, FALSE))
    /\ UNCHANGED <<isLoading, isInChatView, socket, activeTab, currentActionData,
                   activeFileCodeEditor, isCompleted, workspaceInfo, isUploading,
                   uploadedFiles, terminal, reads, now, crashed, acked, queried,
                   inFlight>>

\* the test of the setMessages updater of case AgentEvent.TOOL_RESULT:
\* lastMessage.action && lastMessage.action?.type === data.content.tool_name
MergeTest(lastMessage, k) ==
    /\ lastMessage.action # None
    /\ lastMessage.action[1].type = k

Merged_NoFlag(lastMessage, result, id) ==
    [lastMessage EXCEPT !.id = id,
                        !.action = Some([lastMessage.action[1] EXCEPT
                                            !.result = result])]

\* lastMessage.id = now; action.data.result = result; action.data.isResult = true
Merged(lastMessage, result, id) ==
    [lastMessage EXCEPT !.id = id,
                        !.action = Some([lastMessage.action[1] EXCEPT
                                            !.result = result, !.isResult = TRUE])]

\* { ...lastMessage, action: data.content }
Fallback(lastMessage, k, result) ==
    [lastMessage EXCEPT !.action = Some(RawAction(k, result))]

\* case AgentEvent.TOOL_RESULT
ToolResult(k, result) ==
    /\ Receiving
    /\ Record(Op("tool_result", k, result, NoMessage, FALSE))
    /\ IF k \in IgnoredResultTools \/ k = SEQUENTIAL_THINKING
       THEN /\ timers' = timers
            /\ UNCHANGED <<messages, crashed>>
       ELSE IF k = BROWSER_USE
       THEN /\ messages' = Append(messages, AssistantText(result))
            /\ timers' = Rerender(timers)
            /\ UNCHANGED crashed
       ELSE IF messages = <<>>
       THEN \* cloneDeep(undefined) is undefined: reading .action throws in the updater
            /\ crashed' = TRUE
            /\ timers' = timers
            /\ UNCHANGED messages
       ELSE IF MergeTest(Last(messages), k)
       THEN LET lastMessage == Merged(Last(messages), result, now)
            IN /\ messages' = Append(Front(messages), lastMessage)
               /\ timers' = ScheduleReroute(Rerender(timers), lastMessage.action[1])
               /\ UNCHANGED crashed
       ELSE /\ messages' = Append(messages, Fallback(Last(messages), k, result))
            /\ timers' = Rerender(timers)
            /\ UNCHANGED crashed
    /\ UNCHANGED <<isLoading, isInChatView, socket, activeTab, currentActionData,
                   activeFileCodeEditor, isCompleted, workspaceInfo, isUploading,
                   uploadedFiles, terminal, reads, now, acked, queried,
                   inFlight>>

UploadSuccess_Replaces(files) ==
    /\ Receiving
    /\ isUploading' = FALSE
    /\ uploadedFiles' = files
    /\ acked' = acked \o files
    /\ Record(Op("upload_success", Undefined, files, NoMessage, FALSE))
    /\ timers' = Rerender(timers)
    /\ UNCHANGED <<messages, isLoading, isInChatView, socket, activeTab,
                   currentActionData, activeFileCodeEditor, isCompleted,
                   workspaceInfo, terminal, reads, now, crashed, queried>>
    /\ inFlight' = Answered(inFlight)

\* case AgentEvent.UPLOAD_SUCCESS
UploadSuccess(files) ==
    /\ Receiving
    /\ isUploading' = FALSE
    /\ uploadedFiles' = uploadedFiles \o files
    /\ acked' = acked \o files
    /\ Record(Op("upload_success", Undefined, files, NoMessage, FALSE))
    /\ timers' = Rerender(timers)
    /\ UNCHANGED <<messages, isLoading, isInChatView, socket, activeTab,
                   currentActionData, activeFileCodeEditor, isCompleted,
                   workspaceInfo, terminal, reads, now, crashed, queried>>
    /\ inFlight' = Answered(inFlight)

ErrorEvent_KeepsUploading ==
    /\ Receiving
    /\ isUploading' = isUploading
    /\ isLoading' = FALSE
    /\ Record(Op("error", Undefined, Undefined, NoMessage, TRUE))
    /\ timers' = Rerender(timers)
    /\ UNCHANGED <<messages, isInChatView, socket, activeTab, currentActionData,
                   activeFileCodeEditor, isCompleted, workspaceInfo, uploadedFiles,
                   terminal, reads, now, crashed, acked, queried>>
    /\ inFlight' = Answered(inFlight)

\* case "error"
ErrorEvent ==
    /\ Receiving
    /\ isUploading' = FALSE
    /\ isLoading' = FALSE
    /\ Record(Op("error", Undefined, Undefined, NoMessage, TRUE))
    /\ timers' = Rerender(timers)
    /\ UNCHANGED <<messages, isInChatView, socket, activeTab, currentActionData,
                   activeFileCodeEditor, isCompleted, workspaceInfo, uploadedFiles,
                   terminal, reads, now, crashed, acked, queried>>
    /\ inFlight' = Answered(inFlight)

\* the event types the switch has no case for
UnhandledEvents == {"connection_established", "stream_complete", "system", "pong"}

OtherEvent(type) ==
    /\ Receiving
    /\ type \in UnhandledEvents
    /\ Record(Op("unhandled", Undefined, Undefined, NoMessage, FALSE))
    /\ timers' = timers
    /\ UNCHANGED <<messages, isLoading, isInChatView, socket, activeTab,
                   currentActionData, activeFileCodeEditor, isCompleted,
                   workspaceInfo, isUploading, uploadedFiles, terminal, reads, now,
                   crashed, acked, queried, inFlight>>

(***************************************************************************)
(* Malformed inbound messages.  The body of ws.onmessage is one try block: *)
(* what throws in the handler itself is caught and logged; what a state    *)
(* updater throws is thrown while React renders, outside the try block.    *)
(***************************************************************************)
\* JSON.parse(event.data) throws: the catch logs, nothing has been set
Unparseable ==
    /\ Receiving
    /\ Record(Op("malformed", Undefined, "unparseable", NoMessage, FALSE))
    /\ timers' = timers
    /\ UNCHANGED <<messages, isLoading, isInChatView, socket, activeTab,
                   currentActionData, activeFileCodeEditor, isCompleted,
                   workspaceInfo, isUploading, uploadedFiles, terminal, reads, now,
                   crashed, acked, queried, inFlight>>

\* upload_success whose content has no files: setIsUploading(false) has run
\* when data.content.files.map throws, setUploadedFiles has not
UploadSuccessNoFiles ==
    /\ Receiving
    /\ isUploading' = FALSE
    /\ Record(Op("malformed", Undefined, "upload_success", NoMessage, FALSE))
    /\ timers' = Rerender(timers)
    /\ UNCHANGED <<messages, isLoading, isInChatView, socket, activeTab,
                   currentActionData, activeFileCodeEditor, isCompleted,
                   workspaceInfo, uploadedFiles, terminal, reads, now, crashed,
                   acked, queried>>
    /\ inFlight' = Answered(inFlight)

\* the kinds explored for a tool_call without tool_input: the one whose
\* branch reads tool_input, and one of the others
NoInputTools == {SEQUENTIAL_THINKING, BASH}

\* tool_call whose content has no tool_input.  For sequential_thinking the
\* updater reads data.content.tool_input.thought and throws; for the other
\* kinds nothing reads tool_input but through ?., and the call is recorded
\* and routed as any other
ToolCallNoInput(k) ==
    /\ Receiving
    /\ Record(Op("malformed", k, "tool_call", NoMessage, FALSE))
    /\ IF IsThinking(k)
       THEN /\ crashed' = TRUE
            /\ timers' = timers
            /\ UNCHANGED messages
       ELSE LET action == ActionOf(k, k, NoInput, Undefined, FALSE)
            IN /\ messages' = Append(messages,
                                     Msg(now, "assistant", Undefined, Some(action), None))
               /\ timers' = RouteFromSocket(Rerender(timers), action)
               /\ UNCHANGED crashed
    /\ UNCHANGED <<isLoading, isInChatView, socket, activeTab, currentActionData,
                   activeFileCodeEditor, isCompleted, workspaceInfo, isUploading,
                   uploadedFiles, terminal, reads, now, acked, queried,
                   inFlight>>

(***************************************************************************)
(* User operations.                                                        *)
(***************************************************************************)
NoteHeader == "\n\nNote: I've already uploaded the following files that you can use:\n"

\* Array.prototype.join("\n") over the pieces of the lines
RECURSIVE JoinLines(_)
JoinLines(lines) ==
    IF lines = <<>> THEN <<>>
    ELSE IF Len(lines) = 1 THEN lines[1]
    ELSE lines[1] \o <<"\n">> \o JoinLines(Tail(lines))

FileLines_Reversed(files) ==
    [i \in 1..Len(files) |-> <<"- ", files[Len(files) + 1 - i]>>]

\* uploadedFiles.map((file) => `- ${file}`)
FileLines(files) == [i \in 1..Len(files) |-> <<"- ", files[i]>>]

\* finalQuestion of handleQuestionSubmit
FinalQuestion(newQuestion, files) ==
    IF Len(files) > 0
    THEN <<newQuestion, NoteHeader>> \o JoinLines(FileLines(files))
    ELSE <<newQuestion>>

handleQuestionSubmit_NoBusyGuard(newQuestion) ==
    /\ ~crashed
    /\ IF Trim(newQuestion) = ""
       THEN /\ Record(Op("submit", Undefined, newQuestion, NoMessage, FALSE))
            /\ timers' = timers
            /\ UNCHANGED <<messages, isLoading, isInChatView, isCompleted, queried>>
       ELSE /\ isInChatView' = TRUE
            /\ isCompleted' = FALSE
            /\ messages' = Append(messages,
                                  Msg(now, "user", newQuestion, None, None))
            /\ timers' = Rerender(timers)
            /\ IF socket # "OPEN"
               THEN /\ isLoading' = FALSE
                    /\ queried' = queried
                    /\ Record(Op("submit", Undefined, newQuestion, NoMessage, TRUE))
               ELSE /\ isLoading' = TRUE
                    /\ queried' = TRUE
                    /\ Record(Op("submit", Undefined, newQuestion,
                                 QueryMessage(FinalQuestion(newQuestion, uploadedFiles),
                                              Len(messages) > 0),
                                 FALSE))
    /\ UNCHANGED <<socket, activeTab, currentActionData, activeFileCodeEditor,
                   workspaceInfo, isUploading, uploadedFiles, terminal, reads, now,
                   crashed, acked, inFlight>>

handleQuestionSubmit(newQuestion) ==
    /\ ~crashed
    /\ IF Trim(newQuestion) = "" \/ isLoading
       THEN /\ Record(Op("submit", Undefined, newQuestion, NoMessage, FALSE))
            /\ timers' = timers
            /\ UNCHANGED <<messages, isLoading, isInChatView, isCompleted, queried>>
       ELSE /\ isInChatView' = TRUE
            /\ isCompleted' = FALSE
            /\ messages' = Append(messages,
                                  Msg(now, "user", newQuestion, None, None))
            /\ timers' = Rerender(timers)
            /\ IF socket # "OPEN"
               THEN /\ isLoading' = FALSE
                    /\ queried' = queried
                    /\ Record(Op("submit", Undefined, newQuestion, NoMessage, TRUE))
               ELSE /\ isLoading' = TRUE
                    /\ queried' = TRUE
                    /\ Record(Op("submit", Undefined, newQuestion,
                                 QueryMessage(FinalQuestion(newQuestion, uploadedFiles),
                                              Len(messages) > 0),
                                 FALSE))
    /\ UNCHANGED <<socket, activeTab, currentActionData, activeFileCodeEditor,
                   workspaceInfo, isUploading, uploadedFiles, terminal, reads, now,
                   crashed, acked, inFlight>>

\* the reset button is part of the chat view
resetChat ==
    /\ ~crashed
    /\ isInChatView
    /\ socket' = IF socket = "NULL" THEN "NULL" ELSE "CLOSING"
    /\ isInChatView' = FALSE
    /\ messages' = <<>>
    /\ isLoading' = FALSE
    /\ isCompleted' = FALSE
    /\ queried' = FALSE
    /\ Record(Op("reset", Undefined, Undefined, NoMessage, FALSE))
    /\ timers' = [i \in 1..Len(timers) |->
                     [Rerender(timers)[i] EXCEPT !.stale = TRUE]]
    /\ UNCHANGED <<activeTab, currentActionData, activeFileCodeEditor,
                   workspaceInfo, isUploading, uploadedFiles, terminal, reads, now,
                   crashed, acked, inFlight>>

\* handleFileUpload up to its await: setIsUploading(true), the reads start
handleFileUpload(files) ==
    /\ ~crashed
    /\ isUploading' = TRUE
    /\ reads' = Append(reads, files)
    /\ Record(Op("upload_start", Undefined, Undefined, NoMessage, FALSE))
    /\ timers' = Rerender(timers)
    /\ UNCHANGED <<messages, isLoading, isInChatView, socket, activeTab,
                   currentActionData, activeFileCodeEditor, isCompleted,
                   workspaceInfo, uploadedFiles, terminal, now, crashed, acked, queried,
                   inFlight>>

FilesRead_StaysUploading ==
    /\ ~crashed
    /\ reads # <<>>
    /\ reads' = Tail(reads)
    /\ messages' = Append(messages, Msg(now, "user", Undefined, None, Some(Head(reads))))
    /\ timers' = Rerender(timers)
    /\ isUploading' = isUploading
    /\ IF socket # "OPEN"
       THEN Record(Op("upload", Undefined, Undefined, NoMessage, TRUE))
       ELSE Record(Op("upload", Undefined, Undefined,
                      UploadMessage(Head(reads)), FALSE))
    /\ UNCHANGED <<isLoading, isInChatView, socket, activeTab, currentActionData,
                   activeFileCodeEditor, isCompleted, workspaceInfo, uploadedFiles,
                   terminal, now, crashed, acked, queried>>
    /\ inFlight' = IF socket = "OPEN" THEN inFlight + 1 ELSE inFlight

FilesRead_Prepends ==
    /\ ~crashed
    /\ reads # <<>>
    /\ reads' = Tail(reads)
    /\ messages' = <<Msg(now, "user", Undefined, None, Some(Head(reads)))>> \o messages
    /\ timers' = Rerender(timers)
    /\ IF socket # "OPEN"
       THEN /\ isUploading' = FALSE
            /\ Record(Op("upload", Undefined, Undefined, NoMessage, TRUE))
       ELSE /\ isUploading' = isUploading
            /\ Record(Op("upload", Undefined, Undefined,
                         UploadMessage(Head(reads)), FALSE))
    /\ UNCHANGED <<isLoading, isInChatView, socket, activeTab, currentActionData,
                   activeFileCodeEditor, isCompleted, workspaceInfo, uploadedFiles,
                   terminal, now, crashed, acked, queried>>
    /\ inFlight' = IF socket = "OPEN" THEN inFlight + 1 ELSE inFlight

\* handleFileUpload after Promise.all(filePromises) has resolved
FilesRead ==
    /\ ~crashed
    /\ reads # <<>>
    /\ reads' = Tail(reads)
    /\ messages' = Append(messages, Msg(now, "user", Undefined, None, Some(Head(reads))))
    /\ timers' = Rerender(timers)
    /\ IF socket # "OPEN"
       THEN /\ isUploading' = FALSE
            /\ Record(Op("upload", Undefined, Undefined, NoMessage, TRUE))
       ELSE /\ isUploading' = isUploading
            /\ Record(Op("upload", Undefined, Undefined,
                         UploadMessage(Head(reads)), FALSE))
    /\ UNCHANGED <<isLoading, isInChatView, socket, activeTab, currentActionData,
                   activeFileCodeEditor, isCompleted, workspaceInfo, uploadedFiles,
                   terminal, now, crashed, acked, queried>>
    /\ inFlight' = IF socket = "OPEN" THEN inFlight + 1 ELSE inFlight

\* onClick={() => handleClickAction(message.action, true)} of a history entry,
\* through the debounced function of the current render
ClickAction(i) ==
    /\ ~crashed
    /\ isInChatView
    /\ i \in 1..Len(messages)
    /\ messages[i].action # None
    /\ timers' = Debounced(timers, "click", messages[i].action[1], TRUE, workspaceInfo)
    /\ Record(Op("click", Undefined, Undefined, NoMessage, FALSE))
    /\ UNCHANGED <<messages, isLoading, isInChatView, socket, activeTab,
                   currentActionData, activeFileCodeEditor, isCompleted,
                   workspaceInfo, isUploading, uploadedFiles, terminal, reads, now,
                   crashed, acked, queried, inFlight>>

\* onClick={() => setActiveTab(TAB.X)} of the three tab buttons
ClickTab(t) ==
    /\ ~crashed
    /\ isInChatView
    /\ activeTab' = t
    /\ Record(Op("tab", Undefined, t, NoMessage, FALSE))
    /\ timers' = Rerender(timers)
    /\ UNCHANGED <<messages, isLoading, isInChatView, socket, currentActionData,
                   activeFileCodeEditor, isCompleted, workspaceInfo, isUploading,
                   uploadedFiles, terminal, reads, now, crashed, acked, queried,
                   inFlight>>

(***************************************************************************)
(* Time.                                                                   *)
(***************************************************************************)
\* the trailing call of a debounced handleClickAction runs its body
FireDebounce(i) ==
    LET t == timers[i]
        rest == Rerender(RemoveAt(timers, i))
    IN /\ t.kind = "debounce"
       /\ activeTab' = RouteTab(activeTab, t.data)
       /\ currentActionData' = RouteData(currentActionData, t.data)
       /\ activeFileCodeEditor' = RouteFile(activeFileCodeEditor, t.data, t.w)
       /\ timers' = IF RouteSchedulesWrite(t.data, t.showTabOnly)
                     THEN Append(rest, [Timer("write", DELAY_MS, t.data, FALSE,
                                              t.w, t.inst) EXCEPT !.stale = t.stale])
                     ELSE rest
       /\ UNCHANGED terminal

\* the delayed call of the tool_result merge calls the handler's
\* handleClickAction with the merged action and no second argument
FireReroute(i) ==
    LET t == timers[i]
        ts == RouteFromSocket(RemoveAt(timers, i), t.data)
    IN /\ t.kind = "reroute"
       /\ timers' = [ts EXCEPT ![Len(ts)].stale = t.stale]
       /\ UNCHANGED <<activeTab, currentActionData, activeFileCodeEditor, terminal>>

\* the delayed callback of case TOOL.BASH writes to the terminal, if there
\* is one: the Terminal component is part of the chat view
FireWrite(i) ==
    LET t == timers[i]
    IN /\ t.kind = "write"
       /\ terminal' = IF isInChatView THEN terminal \o TerminalWrites(t.data)
                       ELSE terminal
       /\ timers' = RemoveAt(timers, i)
       /\ UNCHANGED <<activeTab, currentActionData, activeFileCodeEditor>>

Fire(i) ==
    /\ ~crashed
    /\ i \in 1..Len(timers)
    /\ MayFire(timers, i)
    /\ \/ FireDebounce(i)
       \/ FireReroute(i)
       \/ FireWrite(i)
    /\ UNCHANGED <<messages, isLoading, isInChatView, socket, isCompleted,
                   workspaceInfo, isUploading, uploadedFiles, reads, now, crashed,
                   step, cur, acked, queried, inFlight>>

\* d ms pass: no timer is overdue, and none is skipped
Tick(d) ==
    /\ ~crashed
    /\ d > 0
    /\ timers # <<>> => d <= MinRem(timers)
    /\ now' = now + d
    /\ timers' = [i \in 1..Len(timers) |-> [timers[i] EXCEPT !.rem = @ - d]]
    /\ UNCHANGED <<messages, isLoading, isInChatView, socket, activeTab,
                   currentActionData, activeFileCodeEditor, isCompleted,
                   workspaceInfo, isUploading, uploadedFiles, terminal, reads,
                   crashed, step, cur, acked, queried, inFlight>>

\* the steps of the clock that are explored: up to the next expiry while a
\* timer is pending, and otherwise one step after an operation
TickSteps == IF timers # <<>> THEN {MinRem(timers)} ELSE {}

Next ==
    \/ WsOpen
    \/ WsClose
    \/ Processing
    \/ WorkspaceInfo
    \/ AgentThinking
    \/ AgentResponse
    \/ \E k \in EventTools : \E input \in ToolInputs(k) : ToolCall(k, input)
    \/ BrowserUse
    \/ \E k \in EventTools : \E r \in ResultsOf(k) : ToolResult(k, r)
    \/ \E files \in FileLists : UploadSuccess(files)
    \/ ErrorEvent
    \/ \E type \in UnhandledEvents : OtherEvent(type)
    \/ \E q \in Questions : handleQuestionSubmit(q)
    \/ resetChat
    \/ \E files \in ChosenFiles : handleFileUpload(files)
    \/ FilesRead
    \/ \E i \in 1..Len(messages) : ClickAction(i)
    \/ \E t \in TAB \ {activeTab} : ClickTab(t)
    \/ \E i \in 1..Len(timers) : Fire(i)
    \/ \E d \in TickSteps : Tick(d)

Spec == Init /\ [][Next]_vars

\* the same program when the server's messages may be malformed
NextMalformed ==
    \/ Next
    \/ Unparseable
    \/ UploadSuccessNoFiles
    \/ \E k \in NoInputTools : ToolCallNoInput(k)

SpecMalformed == Init /\ [][NextMalformed]_vars

\* The same program further into a session.  Two states the page reaches
\* from Init once the connection is open: Asked, after handleQuestionSubmit
\* has sent the first query, and Uploaded, after handleFileUpload has sent
\* the first upload_file request.
Quiet ==
    /\ socket = "OPEN"
    /\ activeTab = TAB_BROWSER
    /\ currentActionData = None
    /\ activeFileCodeEditor = EmptyStr
    /\ isCompleted = FALSE
    /\ workspaceInfo = EmptyStr
    /\ uploadedFiles = <<>>
    /\ terminal = <<>>
    /\ timers = <<>>
    /\ reads = <<>>
    /\ now = 0
    /\ crashed = FALSE
    /\ acked = <<>>

Asked ==
    /\ Quiet
    /\ messages = <<Msg(0, "user", "hi", None, None)>>
    /\ isLoading = TRUE
    /\ isInChatView = TRUE
    /\ isUploading = FALSE
    /\ queried = TRUE
    /\ inFlight = 0
    /\ cur = [op |-> "submit", tool_name |-> Undefined, arg |-> "hi",
              sent |-> QueryMessage(FinalQuestion("hi", <<>>), FALSE),
              toast |-> FALSE, inWindow |-> Undefined, afterCall |-> FALSE]

Uploaded ==
    /\ Quiet
    /\ \E files \in ChosenFiles :
          /\ messages = <<Msg(0, "user", Undefined, None, Some(files))>>
          /\ cur = [op |-> "upload", tool_name |-> Undefined, arg |-> Undefined,
                    sent |-> UploadMessage(files), toast |-> FALSE,
                    inWindow |-> Undefined, afterCall |-> FALSE]
    /\ isLoading = FALSE
    /\ isInChatView = FALSE
    /\ isUploading = TRUE
    /\ queried = FALSE
    /\ inFlight = 1

\* step counts the operations that follow the state the session starts in
InitSession == (Asked \/ Uploaded) /\ step = 0

\* the connection is open already: ws.onopen has run
NextSession ==
    \/ WsClose
    \/ Processing
    \/ WorkspaceInfo
    \/ AgentThinking
    \/ AgentResponse
    \/ \E k \in EventTools : \E input \in ToolInputs(k) : ToolCall(k, input)
    \/ BrowserUse
    \/ \E k \in EventTools : \E r \in ResultsOf(k) : ToolResult(k, r)
    \/ \E files \in FileLists : UploadSuccess(files)
    \/ ErrorEvent
    \/ \E type \in UnhandledEvents : OtherEvent(type)
    \/ \E q \in Questions : handleQuestionSubmit(q)
    \/ resetChat
    \/ \E files \in ChosenFiles : handleFileUpload(files)
    \/ FilesRead
    \/ \E i \in 1..Len(messages) : ClickAction(i)
    \/ \E t \in TAB \ {activeTab} : ClickTab(t)
    \/ \E i \in 1..Len(timers) : Fire(i)
    \/ \E d \in TickSteps : Tick(d)

SpecSession == InitSession /\ [][NextSession]_vars

(***************************************************************************)
(* Properties.                                                             *)
(***************************************************************************)
\* the step is the run of one handler or user operation
OpStep(name) == step' = step + 1 /\ cur'.op = name

\* the step is a tool_result of a kind other than sequential thinking
ResultStep == OpStep("tool_result") /\ cur'.tool_name # SEQUENTIAL_THINKING

HasAction(m) == m.action # None

\* the last entry carries an ActionStep of kind k that has no result yet
PendingLast(k) ==
    /\ messages # <<>>
    /\ HasAction(Last(messages))
    /\ Last(messages).action[1].type = k
    /\ ~Last(messages).action[1].isResult

\* the last entry carries an ActionStep of kind k
MatchingLast(k) ==
    /\ messages # <<>>
    /\ HasAction(Last(messages))
    /\ Last(messages).action[1].type = k

\* the step stored the result r in the last entry, in place
MergedInPlace(r) ==
    /\ Len(messages') = Len(messages)
    /\ messages # <<>>
    /\ Front(messages') = Front(messages)
    /\ HasAction(Last(messages'))
    /\ Last(messages').action[1].result = r
    /\ Last(messages').action[1].isResult

\* C1: a tool_result of kind K other than sequential thinking is merged into
\* the last entry when that entry carries an ActionStep of kind K with
\* resultReceived = false, and in every other case the history grows by
\* exactly one entry.
C1_MergeIffPendingLast ==
    [][ResultStep =>
          IF PendingLast(cur'.tool_name)
          THEN MergedInPlace(cur'.arg)
          ELSE Len(messages') = Len(messages) + 1]_vars

\* C2: tool_call{bash} directly followed by tool_result{bash, R} adds one
\* entry in all; its ActionStep holds result R with resultReceived = true;
\* and while nothing else happens, once no timer is pending the active
\* panel is the terminal.
C2_BashCallThenResult ==
    /\ [][OpStep("tool_call") /\ cur'.tool_name = BASH
            => Len(messages') = Len(messages) + 1]_vars
    /\ [][OpStep("tool_result") /\ cur'.tool_name = BASH
            /\ cur.op = "tool_call" /\ cur.tool_name = BASH
            => MergedInPlace(cur'.arg)]_vars
    /\ [](cur.op = "tool_result" /\ cur.tool_name = BASH /\ cur.afterCall
            /\ timers = <<>>
            => activeTab = TAB_TERMINAL)

C2_Witness ==
    /\ cur.op = "tool_result" /\ cur.tool_name = BASH /\ cur.afterCall
    /\ cur.arg = TwoLines
    /\ timers = <<>>
    /\ Len(messages) = 1
    /\ Last(messages).action[1].result = TwoLines
    /\ Last(messages).action[1].isResult
    /\ activeTab = TAB_TERMINAL

InboundOps == {"processing", "workspace_info", "agent_thinking", "agent_response",
               "tool_call", "browser_use", "tool_result", "upload_success",
               "error", "unhandled"}

\* the events the claim counts as appending
AppendTriggering(o) ==
    \/ o.op \in {"agent_thinking", "agent_response", "tool_call", "browser_use"}
    \/ o.op = "tool_result" /\ o.tool_name # SEQUENTIAL_THINKING

\* the step is a tool_result that was merged into the last entry
MergeStep ==
    /\ OpStep("tool_result")
    /\ Len(messages') = Len(messages)
    /\ messages' # messages

\* no user operation has touched the history of this session
OnlyEvents ==
    /\ ~isInChatView
    /\ reads = <<>>
    /\ \A i \in 1..Len(messages) : messages[i].role # "user"

\* C3: with inbound events only, the number of entries is the number of
\* append-triggering events minus the number of merged tool_results; stated
\* for each event, the count moves by one for an append-triggering event,
\* less one if the event was merged.
C3_EntryCount ==
    [][(step' = step + 1 /\ cur'.op \in InboundOps /\ OnlyEvents)
          => Len(messages') = Len(messages)
                               + (IF AppendTriggering(cur') THEN 1 ELSE 0)
                               - (IF MergeStep THEN 1 ELSE 0)]_vars

\* the entry m holds the result r
Carries(m, r) ==
    \/ m.content = r
    \/ HasAction(m) /\ m.action[1].result = r

\* C4: a tool_result (not sequential thinking) that finds no matching last
\* entry, the empty history included, appends exactly one entry that carries
\* the result, and raises no error.
C4_UnmatchedResultAppended ==
    [][(ResultStep /\ ~MatchingLast(cur'.tool_name))
          => /\ ~crashed'
             /\ messages' # <<>>
             /\ Front(messages') = messages
             /\ Carries(Last(messages'), cur'.arg)]_vars

\* the timers are the same but for the mark of the render
SameTimers ==
    /\ Len(timers') = Len(timers)
    /\ \A i \in 1..Len(timers) : [timers'[i] EXCEPT !.live = timers[i].live] = timers[i]

\* C5: a tool_call of kind sequential_thinking appends one assistant entry
\* whose content is the thought and which has no ActionStep; no route is
\* started, and the panel, the active document and the payload stay.
C5_ThinkingCallIsText ==
    [][(OpStep("tool_call") /\ cur'.tool_name = SEQUENTIAL_THINKING)
          => /\ messages' # <<>>
             /\ Front(messages') = messages
             /\ Last(messages').role = "assistant"
             /\ Last(messages').content = cur'.arg
             /\ cur'.arg = "planning"
             /\ ~HasAction(Last(messages'))
             /\ SameTimers
             /\ UNCHANGED panel]_vars

C5_Witness ==
    /\ cur.op = "tool_call" /\ cur.tool_name = SEQUENTIAL_THINKING
    /\ Len(messages) = 2
    /\ HasAction(messages[1])
    /\ Last(messages).content = "planning"
    /\ ~HasAction(Last(messages))
    /\ activeTab = TAB_TERMINAL

\* the panel the switch of handleClickAction gives kind k, if it gives one
Routable(k) == RouteTab("none", [type |-> k]) # "none"
PanelOf(k) == RouteTab("none", [type |-> k])

\* the operation was a tool_call that was routed while the route of an
\* earlier tool_call of another kind was still waiting in the debounce window
SecondCallInWindow(o) ==
    /\ o.op = "tool_call"
    /\ o.tool_name # SEQUENTIAL_THINKING
    /\ o.inWindow # Undefined
    /\ o.inWindow # o.tool_name

\* C6: when two tool_calls of different kinds are routed within the 50ms
\* debounce window, the route of the first is never applied, and once all
\* timers have fired the active panel is the one of the second call.
C6_SecondCallWins ==
    /\ [][(step' = step + 1 /\ SecondCallInWindow(cur'))
            => \A i \in 1..Len(timers') :
                  (timers'[i].kind = "debounce" /\ timers'[i].inst = "ws")
                      => timers'[i].data.type = cur'.tool_name]_vars
    /\ []((SecondCallInWindow(cur) /\ Routable(cur.tool_name) /\ timers = <<>>)
            => activeTab = PanelOf(cur.tool_name))

\* the ActionSteps of the history
HistoryActions == {messages[i].action[1] : i \in {j \in 1..Len(messages) : HasAction(messages[j])}}

\* C7: routing the same entry twice in immediate succession leaves the
\* active panel and the active document as routing it once does: the two
\* calls of the debounced function leave one pending call, and running the
\* body a second time changes neither.
C7_RouteIdempotent ==
    /\ Cardinality({i \in 1..Len(timers) :
                       timers[i].kind = "debounce" /\ timers[i].inst = "ws"}) <= 1
    /\ \A a \in HistoryActions : \A w \in {workspaceInfo, MountWorkspaceInfo} :
          LET tab1 == RouteTab(activeTab, a)
              file1 == RouteFile(activeFileCodeEditor, a, w)
          IN /\ RouteTab(tab1, a) = tab1
             /\ RouteFile(file1, a, w) = file1

C7_Witness ==
    /\ activeTab = TAB_CODE
    /\ activeFileCodeEditor # EmptyStr
    /\ \E a \in HistoryActions :
          /\ a.type \in CodeTools
          /\ RouteFile(EmptyStr, a, MountWorkspaceInfo) = activeFileCodeEditor
          /\ RouteTab(TAB_BROWSER, a) = activeTab

\* C8: after resetChat the history is empty, the panel selection is the
\* initial one and the upload registry is empty.
C8_ResetRestoresInitial ==
    [][OpStep("reset")
          => /\ messages' = <<>>
             /\ activeTab' = TAB_BROWSER
             /\ currentActionData' = None
             /\ activeFileCodeEditor' = EmptyStr
             /\ uploadedFiles' = <<>>
             /\ ~isUploading']_vars

\* the step fires a timer, and every pending timer was pending at a reset
StaleFire ==
    /\ UNCHANGED <<step, now>>
    /\ timers' # timers
    /\ \A i \in 1..Len(timers) : timers[i].stale

\* C9: reset cancels the pending delayed re-routes and debounced routes: no
\* timer started before it changes the panel selection, the terminal or
\* the history.
C9_ResetCancelsTimers ==
    [][StaleFire => UNCHANGED <<activeTab, currentActionData, activeFileCodeEditor,
                               terminal, messages>>]_vars

\* C10: the text of a sent query is the user's text, followed, when files
\* have been acknowledged, by the note header and one "- name" line per
\* acknowledged filename, in the order of acknowledgement.
C10_QueryNote ==
    (cur.op = "submit" /\ cur.sent.type = "query") =>
        LET text == cur.sent.text
            n == Len(acked)
        IN /\ text[1] = cur.arg
           /\ n = 0 => text = <<cur.arg>>
           /\ n > 0 =>
                 /\ Len(text) = 3 * n + 1
                 /\ text[2] = NoteHeader
                 /\ \A i \in 1..n :
                       /\ text[3 * i] = "- "
                       /\ text[3 * i + 1] = acked[i]
                       /\ i < n => text[3 * i + 2] = "\n"

C10_Witness ==
    /\ cur.op = "submit" /\ cur.sent.type = "query"
    /\ Len(acked) = 3
    /\ acked[1] = acked[3]
    /\ acked[1] # acked[2]
    /\ Len(cur.sent.text) = 10

\* C11: in every query sent, resume is true exactly when a query has been
\* sent before since the page was mounted or reset, whatever uploads,
\* inbound events or failed submits came before.
C11_ResumeIffNotFirst ==
    [][(OpStep("submit") /\ cur'.sent.type = "query")
          => (cur'.sent.resume <=> queried)]_vars

\* C12: a malformed inbound message is discarded: no exception leaves the
\* handler and the history, the busy, completed and uploading flags, the
\* completed uploads, the workspace root and the panel selection stay.
C12_MalformedDiscarded ==
    [][OpStep("malformed")
          => /\ ~crashed'
             /\ UNCHANGED <<messages, isLoading, isCompleted, isUploading,
                            uploadedFiles, workspaceInfo, panel>>]_vars

\* the step is a query submit with some text, or a file upload
OutboundStep ==
    \/ OpStep("submit") /\ Trim(cur'.arg) # ""
    \/ OpStep("upload")

\* C13: a query submit or file upload attempted while the connection is
\* not open sends nothing and shows a notification, in every state, the
\* busy ones included.
C13_DisconnectedFailsFast ==
    [][(OutboundStep /\ socket # "OPEN")
          => /\ cur'.sent = NoMessage
             /\ cur'.toast]_vars

\* the entries that are in the history before and after the step
Kept == {i \in 1..Len(messages) : i <= Len(messages')}

\* C14: the kind of an ActionStep of the history never changes, and its
\* result changes at most once, from absent to present: a result that is
\* there is never overwritten.
C14_ResultSetOnce ==
    [][\A i \in Kept :
          (HasAction(messages[i]) /\ HasAction(messages'[i]))
              => /\ messages'[i].action[1].type = messages[i].action[1].type
                 /\ messages[i].action[1].result # Undefined
                       => messages'[i].action[1].result
                              = messages[i].action[1].result]_vars

\* C15: every ActionStep of the history that has a result has
\* resultReceived = true, those of the browser_use event and of the
\* tool_result fallback included.
C15_ResultImpliesReceived ==
    \A a \in HistoryActions : a.result # Undefined => a.isResult

\* the step runs the body of handleClickAction on the data of timer i
RouteStep(i) ==
    /\ step' = step
    /\ timers[i].kind = "debounce" /\ timers[i].rem = 0
    /\ Fire(i)

\* C16: a tool_call of a kind the router has no case for is recorded as a
\* history entry, and routing it changes neither the active panel nor the
\* active document nor the payload, and raises no error.
C16_UnknownKindNoOp ==
    /\ [][(OpStep("tool_call") /\ ~IsThinking(cur'.tool_name)
              /\ ~Routable(cur'.tool_name))
            => /\ messages' # <<>>
               /\ Front(messages') = messages
               /\ HasAction(Last(messages'))
               /\ Last(messages').action[1].type = cur'.tool_name
               /\ ~crashed']_vars
    /\ [][\A i \in 1..Len(timers) :
            (RouteStep(i) /\ ~Routable(timers[i].data.type))
                => UNCHANGED panel /\ ~crashed']_vars

\* the browser kinds other than browser_use
BrowserKinds ==
    TOOL \ {SEQUENTIAL_THINKING, STR_REPLACE_EDITOR, BROWSER_USE, TAVILY_SEARCH,
            TAVILY_VISIT, BASH, FILE_WRITE, COMPLETE, STATIC_DEPLOY,
            PDF_TEXT_EXTRACT, AUDIO_TRANSCRIBE, GENERATE_AUDIO_RESPONSE}

\* the panel selection <<tab, data>> is the one the routing table gives an
\* entry a of kind k, routed when the payload was curData
AsTable(k, a, curData, tab, data) ==
    /\ k \in {TAVILY_SEARCH, TAVILY_VISIT, BROWSER_USE}
          => tab = TAB_BROWSER /\ data = Some(a)
    /\ k = BASH => tab = TAB_TERMINAL
    /\ k \in {FILE_WRITE, STR_REPLACE_EDITOR} => tab = TAB_CODE
    /\ k \in BrowserKinds => tab = TAB_BROWSER /\ data = curData

\* C17: routing an entry sets the panel by tool kind: web search, web visit
\* and browser_use select the browser tab and make the entry the payload;
\* bash selects the terminal tab; file write and file edit select the code
\* tab; every other browser kind selects the browser tab and leaves the
\* payload.  Stated for the switch alone on every kind of the enum, and
\* for every run of the router's body on the entry it runs on.
C17_RoutesByKind ==
    /\ \A k \in TOOL : \A t \in TAB :
          LET a == ActionOf(k, k, NoInput, Undefined, FALSE)
              other == Some(ActionOf(BASH, BASH, NoInput, Undefined, FALSE))
          IN \A d \in {None, other} :
                AsTable(k, a, d, RouteTab(t, a), RouteData(d, a))
    /\ [][\A i \in 1..Len(timers) :
            RouteStep(i)
                => AsTable(timers[i].data.type, timers[i].data, currentActionData,
                           activeTab', currentActionData')]_vars

C17_Witness ==
    /\ cur.op = "tool_call" /\ cur.tool_name = BROWSER_CLICK
    /\ timers = <<>>
    /\ activeTab = TAB_BROWSER
    /\ currentActionData # None
    /\ currentActionData[1].type = FILE_WRITE

\* the request path P resolved against the workspace root W
Resolved(P, W) == IF StartsWith(P, W) THEN P ELSE JoinPath(W, P)

\* C18: when a file write or file edit entry with request path P is
\* routed, the active document becomes P resolved against the workspace
\* root most recently received, for routes started by an inbound event and
\* for routes started by a click alike.
C18_PathResolved ==
    [][\A i \in 1..Len(timers) :
          (RouteStep(i) /\ timers[i].data.type \in CodeTools
              /\ RoutePath(timers[i].data) # None)
              => activeFileCodeEditor'
                    = Resolved(RoutePath(timers[i].data)[1], workspaceInfo)]_vars

\* the step appends one assistant entry whose content is text
AppendsText(text) ==
    /\ messages' # <<>>
    /\ Front(messages') = messages
    /\ Last(messages').role = "assistant"
    /\ Last(messages').content = text
    /\ ~HasAction(Last(messages'))

\* C19: agent_thinking and agent_response each append exactly one
\* assistant entry whose content is the event's text; agent_response
\* leaves busy = false and completed = true, agent_thinking changes
\* neither flag.
C19_ThinkingAndResponse ==
    /\ [][OpStep("agent_thinking")
            => /\ AppendsText(cur'.arg)
               /\ cur'.arg = "text"
               /\ UNCHANGED <<isLoading, isCompleted>>]_vars
    /\ [][OpStep("agent_response")
            => /\ AppendsText(cur'.arg)
               /\ cur'.arg = "text"
               /\ ~isLoading'
               /\ isCompleted']_vars

C19_Witness ==
    /\ cur.op = "agent_response"
    /\ queried
    /\ Len(messages) = 3
    /\ messages[1].role = "user"
    /\ messages[2].content = "text" /\ messages[3].content = "text"
    /\ ~isLoading
    /\ isCompleted

\* handleQuestionSubmit would send a query with some text
CanSubmit == ~crashed /\ ~isLoading /\ socket = "OPEN"

\* C20: an error event leaves busy = false and uploading = false, shows a
\* notification, raises no exception and leaves the history, the completed
\* uploads and the connection as they were, so that a query can be
\* submitted afterwards.
C20_ErrorClearsFlags ==
    [][OpStep("error")
          => /\ ~isLoading'
             /\ ~isUploading'
             /\ cur'.toast
             /\ ~crashed'
             /\ UNCHANGED <<messages, uploadedFiles, socket>>
             /\ CanSubmit']_vars

\* the error arrived while a query was under way and an upload was being read
C20_Witness ==
    /\ cur.op = "error"
    /\ step = 3
    /\ queried
    /\ reads # <<>>
    /\ Len(messages) = 1
    /\ ~isLoading
    /\ ~isUploading
    /\ socket = "OPEN"

\* the last n elements of s
Suffix(s, n) == SubSeq(s, Len(s) - n + 1, Len(s))

\* C21: an upload_success event appends the acknowledged filenames, in the
\* order given, to the end of the completed list and clears the uploading
\* flag; the completed list only ever grows by appending, so that it is
\* at all times the acknowledged names in the order of acknowledgement,
\* earlier names and duplicates kept.
C21_UploadsAppended ==
    /\ uploadedFiles = acked
    /\ cur.op = "upload_success"
          => /\ ~isUploading
             /\ Len(cur.arg) <= Len(uploadedFiles)
             /\ Suffix(uploadedFiles, Len(cur.arg)) = cur.arg

C21_Witness ==
    /\ cur.op = "upload_success"
    /\ cur.arg = <<"b.txt", "a.png">>
    /\ uploadedFiles = <<"a.png", "b.txt", "a.png">>
    /\ reads # <<>>
    /\ ~isUploading

\* C22: when the files of an upload have been read, exactly one user entry
\* carrying their names is appended, whether or not the connection is
\* open; when it is not open nothing is sent and uploading ends false.
C22_UploadEntryAlways ==
    [][OpStep("upload")
          => /\ messages' # <<>>
             /\ Front(messages') = messages
             /\ Last(messages').role = "user"
             /\ Last(messages').files = Some(Head(reads))
             /\ Head(reads) # <<>>
             /\ IF socket # "OPEN"
                THEN cur'.sent = NoMessage /\ ~isUploading'
                ELSE cur'.sent = UploadMessage(Head(reads))]_vars

C22_Witness ==
    /\ cur.op = "upload"
    /\ cur.sent = NoMessage
    /\ socket = "NULL"
    /\ Len(messages) = 1
    /\ Last(messages).files = Some(<<"a.png", "b.txt">>)
    /\ ~isUploading

\* the step changes the last entry as a merge of a tool_result does
MergesLast ==
    LET old == Last(messages)
        new == messages'[Len(messages)]
    IN /\ OpStep("tool_result")
       /\ Len(messages') = Len(messages)
       /\ new.role = old.role /\ new.content = old.content /\ new.files = old.files
       /\ HasAction(old) /\ HasAction(new)
       /\ old.action[1].type = cur'.tool_name
       /\ new.action[1].type = cur'.tool_name

\* C23: entries are in the history in the order of arrival: but for reset,
\* a step leaves the entries that are there in place and unchanged and adds
\* at most one entry, at the end; the one entry a step may change is the
\* last of the moment, by the merge of a tool_result of its kind.
C23_ArrivalOrder ==
    [][~OpStep("reset")
          => /\ Len(messages') \in {Len(messages), Len(messages) + 1}
             /\ \A i \in 1..(Len(messages) - 1) : messages'[i] = messages[i]
             /\ messages # <<>>
                   => \/ messages'[Len(messages)] = Last(messages)
                      \/ MergesLast]_vars

C23_Witness ==
    /\ cur.op = "tool_result"
    /\ Len(messages) = 2
    /\ ~HasAction(messages[1])
    /\ messages[1].content = "text"
    /\ HasAction(messages[2])
    /\ messages[2].action[1].isResult
    /\ messages[2].action[1].result = TwoLines

\* C24: a browser_use event appends exactly one entry whose ActionStep is
\* of kind browser_use, with the screenshot as result and the event's url
\* as request url, and routes it; once no timer is pending the active
\* panel is the browser with that ActionStep as payload.
C24_ScreenshotRouted ==
    /\ [][OpStep("browser_use")
            => /\ messages' # <<>>
               /\ Front(messages') = messages
               /\ HasAction(Last(messages'))
               /\ Last(messages').action[1].type = BROWSER_USE
               /\ Last(messages').action[1].result = "screenshot"
               /\ Last(messages').action[1].tool_input.url = "u"
               /\ \E i \in 1..Len(timers') :
                     /\ timers'[i].kind = "debounce"
                     /\ timers'[i].data = Last(messages').action[1]]_vars
    /\ []((cur.op = "browser_use" /\ timers = <<>>)
            => /\ activeTab = TAB_BROWSER
               /\ currentActionData = Some(Last(messages).action[1]))

\* the program state a route has no business with
Unrouted == <<messages, terminal, isLoading, isInChatView, socket, isCompleted,
              workspaceInfo, isUploading, uploadedFiles, reads>>

\* C25: a route with showTabOnly = true, as a click on a history entry
\* starts it, writes nothing to the terminal and schedules no write, and
\* leaves the history; it changes the panel selection at most, each time
\* it runs.
C25_ShowOnlyRoute ==
    [][\A i \in 1..Len(timers) :
          (RouteStep(i) /\ timers[i].showTabOnly)
              => /\ UNCHANGED Unrouted
                 /\ Len(timers') = Len(timers) - 1
                 /\ \A j \in 1..Len(timers') : timers'[j].kind = "write"
                                                  => timers'[j].inst # "click"]_vars

\* the click on the bash entry has been routed: the terminal shows what the
\* route of the tool_call wrote, once
C25_Witness ==
    /\ cur.op = "click"
    /\ timers = <<>>
    /\ activeTab = TAB_TERMINAL
    /\ terminal = <<"ls">>
    /\ Len(messages) = 2

\* the re-routes that timers ts hold for ActionStep a, just started
Reroutes(ts, a) == {i \in 1..Len(ts) : /\ ts[i].kind = "reroute"
                                        /\ ts[i].rem = DELAY_MS
                                        /\ ts[i].data = a}

\* C26: after a tool_result is merged the router is called exactly once
\* for the merged entry, after the fixed delay, with showTabOnly = true.
C26_RerouteOnceShowOnly ==
    [][MergeStep
          => LET new == Reroutes(timers', Last(messages').action[1])
             IN /\ Cardinality(new) = 1
                /\ \A i \in new : timers'[i].showTabOnly]_vars

\* C27: a merge is an update in place: the number of entries and every
\* entry but the last stay, and in the last entry only the ActionStep's
\* result and resultReceived change.
C27_MergeInPlace ==
    [][MergeStep
          => /\ Len(messages') = Len(messages)
             /\ Front(messages') = Front(messages)
             /\ Last(messages')
                   = [Last(messages) EXCEPT
                        !.action = Some([@[1] EXCEPT !.result = cur'.arg,
                                                     !.isResult = TRUE])]]_vars

\* C28: the ids of the history entries are pairwise distinct and strictly
\* increasing in the order of the history, in every state.
C28_IdsIncreasing ==
    \A i \in 1..Len(messages) : \A j \in 1..Len(messages) :
        i < j => messages[i].id < messages[j].id

\* C29: every entry of the history has a content, attachments or an
\* action.
C29_EntryNotEmpty ==
    \A i \in 1..Len(messages) :
        \/ messages[i].content # Undefined
        \/ messages[i].files # None
        \/ messages[i].action # None

\* an upload's entry and a fallback entry
C29_Witness ==
    /\ Len(messages) = 2
    /\ messages[1].files # None
    /\ messages[1].content = Undefined
    /\ ~HasAction(messages[1])
    /\ HasAction(messages[2])
    /\ messages[2].action[1].raw

\* the events that are no part of the conversation
ConfigOps == {"processing", "workspace_info", "unhandled", "upload_success", "error"}

\* the state that neither processing nor workspace_info has business with
Session == <<messages, panel, isInChatView, socket, isCompleted, isUploading,
             uploadedFiles, terminal, reads, crashed>>

\* C30: the events connection_established, workspace_info, processing,
\* stream_complete, system, pong, upload_success and error change neither
\* the history nor the panel selection; processing sets busy and nothing
\* else, so that a second one changes nothing; workspace_info replaces the
\* workspace root and nothing else.
C30_ConfigEventsFrame ==
    [][(step' = step + 1 /\ cur'.op \in ConfigOps)
          => /\ UNCHANGED <<messages, panel>>
             /\ SameTimers
             /\ cur'.op = "processing"
                   => /\ isLoading'
                      /\ UNCHANGED <<Session, workspaceInfo>>
                      /\ isLoading => UNCHANGED isLoading
             /\ cur'.op = "workspace_info"
                   => /\ workspaceInfo' = WorkspacePath
                      /\ UNCHANGED <<Session, isLoading>>]_vars

C30_Witness ==
    /\ cur.op = "processing"
    /\ isLoading
    /\ queried
    /\ Len(messages) = 2
    /\ activeTab = TAB_TERMINAL
    /\ timers = <<>>

\* the step leaves the history, the flags, the upload registry, the panel
\* selection and the pending timers as they were
NoEffect ==
    /\ UNCHANGED <<messages, isLoading, isInChatView, isCompleted, isUploading,
                   uploadedFiles, panel, crashed>>
    /\ timers' = timers

\* C31: a tool_result of kind sequential_thinking is ignored: history, flags,
\* upload registry and panel selection are unchanged and no route is
\* scheduled; sequential_thinking is the only kind whose results are ignored,
\* so a tool_result step has no effect exactly when its kind is that one.
C31_OnlyThinkingIgnored ==
    [][OpStep("tool_result")
          => (NoEffect <=> cur'.tool_name = SEQUENTIAL_THINKING)]_vars

\* how often x occurs in the sequence s
Count(s, x) == Cardinality({i \in 1..Len(s) : s[i] = x})

\* the history entries of the bash tool_calls received, and those among
\* them that hold a non-empty merged result
BashCalls == {i \in 1..Len(messages) :
                 /\ HasAction(messages[i])
                 /\ ~messages[i].action[1].raw
                 /\ messages[i].action[1].type = BASH}
BashResults == {i \in BashCalls :
                   /\ messages[i].action[1].isResult
                   /\ Truthy(messages[i].action[1].result)}

\* nothing is pending, and the chat view (and with it the terminal) has been
\* there since before the first tool event: the history begins with the
\* user's query
Settled ==
    /\ ~crashed
    /\ timers = <<>>
    /\ isInChatView
    /\ messages # <<>>
    /\ messages[1].role = "user"
    /\ messages[1].content # Undefined

\* C32: every bash tool_call received has its command written to the
\* terminal exactly once, and every non-empty merged bash result has its
\* lines (and the prompt that ends them) written exactly once, whatever the
\* timing of the events: once every pending timer has fired, the terminal
\* holds one command line per bash call of the history and one block of
\* output per merged result.
C32_BashWrittenOnce ==
    Settled => /\ Count(terminal, "ls") = Cardinality(BashCalls)
               /\ Count(terminal, "$ ") = Cardinality(BashResults)

\* what the terminal shows for one history entry: the command of a bash
\* tool_call, followed by the lines of its merged result and the prompt
EntryLines(m) ==
    IF HasAction(m) /\ ~m.action[1].raw /\ m.action[1].type = BASH
    THEN <<m.action[1].tool_input.command>>
            \o (IF m.action[1].isResult /\ Truthy(m.action[1].result)
                THEN Split(m.action[1].result) \o <<"$ ">> ELSE <<>>)
    ELSE <<>>

\* the transcript in the order of the history, which is the order of arrival
RECURSIVE Transcript(_)
Transcript(ms) ==
    IF ms = <<>> THEN <<>> ELSE EntryLines(Head(ms)) \o Transcript(Tail(ms))

\* C33: in the terminal transcript the output lines of a bash command come
\* after that command's own text and before the text of any bash command
\* whose tool_call arrived later: once nothing is pending and each command
\* and each output has been written once, the transcript is that of the
\* history read in order.
C33_OutputFollowsCommand ==
    (Settled /\ C32_BashWrittenOnce) => terminal = Transcript(messages)

\* the most recent operation is a routable tool event: a tool_call, a
\* browser_use event, or a tool_result that was merged into the last entry
LatestRoutable ==
    /\ ~crashed
    /\ Routable(cur.tool_name)
    /\ \/ cur.op \in {"tool_call", "browser_use"}
       \/ /\ cur.op = "tool_result"
          /\ messages # <<>>
          /\ HasAction(Last(messages))
          /\ ~Last(messages).action[1].raw
          /\ Last(messages).action[1].isResult
          /\ Last(messages).action[1].type = cur.tool_name

\* C34: once all pending timers have fired, the active panel is the one the
\* dispatch table assigns to the most recently received routable tool event;
\* the delayed re-route of an older result does not override the panel of a
\* tool_call that arrived after it.  (No tab or entry has been clicked since
\* that event: it is the latest operation.)
C34_LatestEventPanel ==
    (LatestRoutable /\ timers = <<>>) => activeTab = PanelOf(cur.tool_name)

\* C35: in every reachable state the web-view payload (currentActionData) is
\* unset or is the ActionStep that some history entry holds now: it is not
\* an ActionStep from before a merge, nor that of an entry removed by reset.
C35_PayloadInHistory ==
    currentActionData # None => currentActionData[1] \in HistoryActions

\* C36: whenever at least one upload_file request has been sent and not yet
\* answered by upload_success or error, the uploading flag is true; with two
\* uploads in flight the acknowledgement of one does not clear the flag.
C36_UploadingWhileInFlight == inFlight > 0 => isUploading

\* the state of the page: everything but the clock and the bookkeeping
PageState == <<messages, isLoading, isInChatView, socket, panel, isCompleted,
               workspaceInfo, isUploading, uploadedFiles, terminal, timers,
               reads, crashed>>

\* handleQuestionSubmit was called with a blank text or while busy
Refused == OpStep("submit") /\ (Trim(cur'.arg) = "" \/ isLoading)
\* handleQuestionSubmit sent a query
QuerySent == OpStep("submit") /\ cur'.sent.type = "query"
\* the busy flag falls while a query has been sent in this conversation
BusyCleared == queried /\ isLoading /\ ~isLoading'

SubmitGuard ==
    /\ Refused => (cur'.sent = NoMessage /\ ~cur'.toast /\ UNCHANGED PageState)
    /\ QuerySent => (~isLoading /\ isLoading')

\* C37 as stated: handleQuestionSubmit sends nothing and changes no state
\* when the text is blank or the busy flag is set; a query is only sent
\* where busy is false; busy is true right after every sent query, and from
\* then on it falls only when an agent_response or an error event arrives.
C37_BusyUntilAnswer ==
    [][/\ SubmitGuard
       /\ BusyCleared => (OpStep("agent_response") \/ OpStep("error"))]_vars

\* C37, amended: as above, but busy also falls when the chat is reset.
C37_BusyUntilAnswerOrReset ==
    [][/\ SubmitGuard
       /\ BusyCleared => \/ OpStep("agent_response")
                         \/ OpStep("error")
                         \/ OpStep("reset")]_vars

\* a second query was submitted while the first was unanswered, and refused
C37_Witness ==
    /\ cur.op = "submit"
    /\ cur.arg = "hi"
    /\ cur.sent = NoMessage
    /\ queried
    /\ isLoading
    /\ Len(messages) = 1

\* C38: every user text entry of the history corresponds to a query that
\* was sent: a submit that sends nothing, as when the connection is not
\* open, leaves the history unchanged.
C38_UserEntryWasSent ==
    [][(OpStep("submit") /\ cur'.sent.type # "query")
          => UNCHANGED messages]_vars

\* C39: after reset the session is usable for a new conversation: a
\* non-blank query submitted after reset is sent to the backend, with
\* resume = false.  The page keeps no outbound queue: a query leaves in the
\* call of handleQuestionSubmit or not at all, so that "eventually sent" is
\* "sent by that call".
C39_UsableAfterReset ==
    [][(cur.op = "reset" /\ OpStep("submit") /\ Trim(cur'.arg) # "")
          => (cur'.sent.type = "query" /\ ~cur'.sent.resume)]_vars

\* the step is a tool_result that appended its fallback entry: the new last
\* entry holds the event's content as it came
FallbackStep ==
    /\ ResultStep
    /\ Len(messages') = Len(messages) + 1
    /\ HasAction(Last(messages'))
    /\ Last(messages').action[1].raw

\* C40: the fallback entry appended for an unmatched tool_result is an
\* assistant entry whose only payload is the result: it has neither the id,
\* nor the role, the text content or the attachments of the entry before it.
C40_FallbackOnlyResult ==
    [][FallbackStep
          => /\ Last(messages').role = "assistant"
             /\ Last(messages').content = Undefined
             /\ Last(messages').files = None
             /\ Last(messages').id # Last(messages).id]_vars

====
